---- MODULE Spec2Model ----
(***************************************************************************)
(* Model of src/src/utils/pull_and_dump.py: the College Football Data      *)
(* extract-and-load utility.  Strings are sequences of one-character       *)
(* strings, Python values that may be None are tagged tuples, and every    *)
(* call into an external library (requests, pandas, sqlalchemy, snowflake) *)
(* is one step that either completes or raises.                            *)
(***************************************************************************)
EXTENDS Integers, Sequences, FiniteSets, TLC

\* ------------------------------------------------------------------ bounds
MaxCalls == 2
MaxFilters == 2

\* ----------------------------------------------------------------- strings
Lower == <<"a","b","c","d","e","f","g","h","i","j","k","l","m",
           "n","o","p","q","r","s","t","u","v","w","x","y","z">>

UpperCase == <<"A","B","C","D","E","F","G","H","I","J","K","L","M",
               "N","O","P","Q","R","S","T","U","V","W","X","Y","Z">>

Digits == <<"0","1","2","3","4","5","6","7","8","9">>

\* str.upper on one character
upper(c) ==
    IF \E i \in 1..Len(Lower) : Lower[i] = c
    THEN UpperCase[CHOOSE i \in 1..Len(Lower) : Lower[i] = c]
    ELSE c

\* str.upper
str_upper(s) == [i \in 1..Len(s) |-> upper(s[i])]

RECURSIVE str(_)
\* str(n) for a non-negative int, as an f-string or to_csv renders it
str(n) == IF n < 10 THEN <<Digits[n + 1]>>
          ELSE str(n \div 10) \o <<Digits[(n % 10) + 1]>>

RECURSIVE Count(_, _)
\* s.count(c)
Count(c, s) == IF Len(s) = 0 THEN 0
               ELSE (IF Head(s) = c THEN 1 ELSE 0) + Count(c, Tail(s))

\* ----------------------------------------------------------- Python values
PyNone == <<"NoneType">>

PyList(items) == <<"list", items>>

PyInt(n) == <<"int", n>>

PyStr(s) == <<"str", s>>

NaN == <<"nan">>

JsonObj(pairs) == <<"obj", pairs>>

\* bool(x) for None and lists
Truthy(x) == x[1] = "list" /\ Len(x[2]) > 0

\* f'{v}' for a scalar; NaN is written by to_csv as the empty field
Format(v) == IF v[1] = "int" THEN str(v[2])
             ELSE IF v[1] = "str" THEN v[2]
             ELSE <<>>

\* ---------------------------------------------------------- URL building
BaseUrl == <<"h","t","t","p","s",":","/","/","a","p","i",".",
             "c","o","l","l","e","g","e","f","o","o","t","b","a","l","l",
             "d","a","t","a",".","c","o","m","/">>

\* the loop body with enumerate taken to count from 1
UrlAppend_from_one(url, n, search, value) ==
    url \o (IF n = 1 THEN <<"?">> ELSE <<"&">>) \o search \o <<"=">> \o Format(value)

\* the loop body: url += f'?{search}={value}' (n = 0) or f'&{search}={value}'
UrlAppend(url, n, search, value) ==
    url \o (IF n = 0 THEN <<"?">> ELSE <<"&">>) \o search \o <<"=">> \o Format(value)

RECURSIVE UrlLoop(_, _, _, _)
\* for n, search in enumerate(Search): ... Value[n] ...   (n counts from 0)
UrlLoop(url, n, Search, Value) ==
    IF n >= Len(Search) THEN [ok |-> TRUE, url |-> url]
    ELSE IF Value[1] # "list" THEN [ok |-> FALSE, exc |-> "TypeError"]
    ELSE IF n >= Len(Value[2]) THEN [ok |-> FALSE, exc |-> "IndexError"]
    ELSE UrlLoop(UrlAppend(url, n, Search[n + 1], Value[2][n + 1]),
                 n + 1, Search, Value)

\* the URL of an invocation, or the exception the loop raises
BuildUrl(Category, Search, Value) ==
    IF Truthy(Search)
    THEN UrlLoop(BaseUrl \o Category, 0, Search[2], Value)
    ELSE [ok |-> TRUE, url |-> BaseUrl \o Category]

\* ------------------------------------------------- argument binding of a call
\* def pull_data_from_api(url, api_key, params, timeout=120): the parameters a
\* call has to bind
pull_data_from_api_params == <<"url", "api_key", "params">>

\* positional arguments handed over at the two call sites in
\* pull_and_dump_data and main: pull_data_from_api(url, api_key)
FetchCallArgs == <<"url", "api_key">>

\* required parameters a call leaves unbound (Python raises TypeError for them)
MissingParams(required, given) ==
    {required[i] : i \in (Len(given) + 1)..Len(required)}

\* ------------------------------------------------------ json_normalize
RECURSIVE NormaliseJson(_, _)
\* nested keys, depth first, joined with '.'
NormaliseJson(prefix, pairs) ==
    IF Len(pairs) = 0 THEN <<>>
    ELSE LET kv == Head(pairs)
             key == prefix \o kv[1]
         IN  (IF kv[2][1] = "obj"
              THEN NormaliseJson(key \o <<".">>, kv[2][2])
              ELSE << <<key, kv[2]>> >>)
             \o NormaliseJson(prefix, Tail(pairs))

\* one record: top-level scalars first, then the flattened nested objects
NormaliseRecord(pairs) ==
    SelectSeq(pairs, LAMBDA kv : kv[2][1] # "obj")
    \o NormaliseJson(<<>>, SelectSeq(pairs, LAMBDA kv : kv[2][1] = "obj"))

KeysOf(rec) == [i \in 1..Len(rec) |-> rec[i][1]]

RECURSIVE Union(_, _)
\* keys of b not yet in a, appended in order of appearance
Union(a, b) ==
    IF Len(b) = 0 THEN a
    ELSE IF \E i \in 1..Len(a) : a[i] = Head(b) THEN Union(a, Tail(b))
    ELSE Union(Append(a, Head(b)), Tail(b))

RECURSIVE ColumnsOf(_)
ColumnsOf(recs) ==
    IF Len(recs) = 0 THEN <<>>
    ELSE Union(KeysOf(Head(recs)), ColumnsOf(Tail(recs)))

Lookup(rec, key) ==
    IF \E i \in 1..Len(rec) : rec[i][1] = key
    THEN rec[CHOOSE i \in 1..Len(rec) : rec[i][1] = key][2]
    ELSE NaN

\* pd.json_normalize(response.json()) for a JSON array of objects
json_normalize(payload) ==
    LET recs == [i \in 1..Len(payload) |-> NormaliseRecord(payload[i])]
        cols == ColumnsOf(recs)
    IN  [columns |-> cols,
         rows |-> [i \in 1..Len(recs) |->
                     [j \in 1..Len(cols) |-> Lookup(recs[i], cols[j])]]]

\* map(str.capitalize, df.columns) in place of map(str.upper, df.columns)
UpperColumns_capitalize(df) ==
    [columns |-> [j \in 1..Len(df.columns) |->
                    [c \in 1..Len(df.columns[j]) |->
                        IF c = 1 THEN upper(df.columns[j][c]) ELSE df.columns[j][c]]],
     rows |-> df.rows]

\* df.columns = map(str.upper, df.columns)
UpperColumns(df) ==
    [columns |-> [j \in 1..Len(df.columns) |-> str_upper(df.columns[j])],
     rows |-> df.rows]

\* ------------------------------------------------------------- DataFrame sinks
\* df.to_csv(path, index=index): the lines of the file, each a sequence of fields
to_csv(df, index) ==
    << (IF index THEN << <<>> >> ELSE <<>>) \o df.columns >>
    \o [i \in 1..Len(df.rows) |->
          (IF index THEN <<str(i - 1)>> ELSE <<>>)
          \o [j \in 1..Len(df.rows[i]) |-> Format(df.rows[i][j])]]

\* df.to_sql(name, engine, if_exists='replace'): the table that results
to_sql(old, df) ==
    [columns |-> << <<"i","n","d","e","x">> >> \o df.columns,
     rows |-> [i \in 1..Len(df.rows) |-> <<PyInt(i - 1)>> \o df.rows[i]]]

\* write_pandas(conn, df, table_name): rows are copied into the existing table
write_pandas(old, df) ==
    [columns |-> old.columns, rows |-> old.rows \o df.rows]

\* write_pandas(conn, df, table_name, auto_create_table=True): the table is
\* created when there is none, and the rows are copied into it
write_pandas_auto_create(old, df) ==
    IF old.exists THEN write_pandas(old, df)
    ELSE [columns |-> df.columns, rows |-> df.rows]

\* ------------------------------------------------------------------ inputs
Categories == { <<"g","a","m","e","s">>, <<"t","e","a","m","s">> }

\* the i-th filter key of a query: year, team, year, ...
FilterKey(i) == IF i % 2 = 1 THEN <<"y","e","a","r">> ELSE <<"t","e","a","m">>

FilterValues == { PyStr(<<"S","E","C">>), PyInt(2022) }

SeqsUpTo(S, n) == UNION {[1..k -> S] : k \in 0..n}

\* arg.Search / arg.Value: absent (None) or a list
SearchArgs == {PyNone} \cup {PyList([i \in 1..k |-> FilterKey(i)]) : k \in 0..MaxFilters}

ValueArgs == {PyNone} \cup {PyList(s) : s \in SeqsUpTo(FilterValues, MaxFilters)}

FileNames == { <<"o","u","t">> }

TableNames == { <<"T","E","A","M","S">> }

\* the arguments of pull_and_dump_data (a dict) and of main (a Namespace)
Args == [Category : Categories, Search : SearchArgs, Value : ValueArgs,
         Export : BOOLEAN, Table : TableNames, File : FileNames]

\* JSON bodies the service answers with: arrays of objects
Payloads ==
    { <<>>,
      << << <<<<"i","d">>, PyInt(1)>>, <<<<"t","e","a","m">>, PyStr(<<"S","E","C">>)>> >> >>,
      << << <<<<"v","e","n","u","e">>, JsonObj(<< <<<<"c","i","t","y">>, PyStr(<<"X">>)>> >>)>>,
            <<<<"i","d">>, PyStr(<<"a">>)>> >>,
         << <<<<"I","d">>, PyStr(<<"b">>)>> >> >> }

StatusCodes == {200, 204, 404}

\* what the service holds ready for the request of one invocation
Responses ==
    {[status |-> 200, json |-> p] : p \in Payloads}
    \cup {[status |-> s, json |-> <<>>] : s \in StatusCodes \ {200}}

\* the answers tried against pull_and_dump_data and main: 200 with one record, 404
EntryResponses == {r \in Responses : r.status = 404 \/ Len(r.json) = 1}

\* the DataFrame pull_data_from_api makes of a 200 response
DataFrameOf(payload) == UpperColumns(json_normalize(payload))

DataFrames == {DataFrameOf(p) : p \in Payloads}

\* f'{File}.csv'
CsvPath(File) == File \o <<".","c","s","v">>

Paths == {CsvPath(f) : f \in FileNames}

Absent == [exists |-> FALSE]

Stored(t) == [exists |-> TRUE, columns |-> t.columns, rows |-> t.rows]

\* ------------------------------------------------------------------- state
VARIABLES
    pc,        \* position of the running invocation, "idle" between invocations
    op,        \* the function that was called
    arg,       \* its arguments
    api,       \* the response the service has for this invocation
    url,       \* local variable url
    printed,   \* what print(f'Query URL: {url}') wrote
    httpLog,   \* URLs of the GET requests issued by this invocation
    response,  \* local variable response
    df,        \* the DataFrame in hand
    pending,   \* exception travelling through the finally clause
    result,    \* how the invocation ended
    conn,      \* the Snowflake connection of this invocation
    sqlLog,    \* what ran on that connection, in order
    written,   \* the sinks this invocation has written, in order
    snowflake_conn, \* the kind of object handed to dump_to_snowflake
    csv,       \* files on disk, by path
    pg,        \* PostgreSQL tables, by name
    sf,        \* Snowflake tables, by name
    sinks0,    \* the three sinks as they were when the invocation began
    calls      \* invocations started so far

frame == <<op, arg, api, url, printed, httpLog, response, df, pending, result,
           conn, sqlLog, written, snowflake_conn, sinks0>>

sinks == <<csv, pg, sf>>

vars == <<pc, frame, sinks, calls>>

EntryPoints == {"pull_and_dump_data", "main"}

NoArg == [none |-> TRUE]

NoUrl == <<"unset">>

NoResponse == [status |-> 0, json |-> <<>>]

NoDf == [columns |-> <<>>, rows |-> <<>>]

Running == [kind |-> "running"]

Return(type) == [kind |-> "return", type |-> type]

Raise(exc) == [kind |-> "raise", exc |-> exc]

\* the state between invocations: nothing of an earlier frame survives
Fresh ==
    /\ op = "none" /\ arg = NoArg /\ api = NoResponse /\ url = NoUrl
    /\ printed = NoUrl /\ httpLog = <<>> /\ response = NoResponse /\ df = NoDf
    /\ pending = "none" /\ result = Running /\ conn = "none" /\ sqlLog = <<>>
    /\ written = <<>> /\ snowflake_conn = "none"

Init ==
    /\ pc = "idle" /\ Fresh /\ calls = 0
    /\ csv = [p \in Paths |-> Absent]
    /\ pg = [t \in TableNames |-> Absent]
    /\ sf \in [TableNames -> {Absent} \cup {Stored(d) : d \in DataFrames}]
    /\ sinks0 = <<csv, pg, sf>>

\* what every call sets up
Enter(name, a, r, d) ==
    /\ pc = "idle" /\ calls < MaxCalls
    /\ calls' = calls + 1
    /\ op' = name /\ arg' = a /\ api' = r /\ df' = d
    /\ sinks0' = <<csv, pg, sf>>
    /\ UNCHANGED <<printed, httpLog, response, pending, result, conn, sqlLog,
                   written, sinks>>

\* how every invocation ends
Finish(r) == pc' = "done" /\ result' = r

\* ------------------------------------------------- pull_data_from_api
\* a caller hands over url, api_key and params
Call_pull_data_from_api ==
    \E c \in Categories, r \in Responses :
        /\ Enter("pull_data_from_api", NoArg, r, NoDf)
        /\ MissingParams(pull_data_from_api_params, <<"url", "api_key", "params">>) = {}
        /\ url' = BaseUrl \o c
        /\ pc' = "requests_get"
        /\ UNCHANGED snowflake_conn

\* response = requests.get(url, headers=headers, params=params, timeout=timeout)
requests_get ==
    /\ pc = "requests_get"
    /\ httpLog' = Append(httpLog, url)
    /\ response' = api
    /\ pc' = "status_code"
    /\ UNCHANGED <<op, arg, api, url, printed, df, pending, result, conn, sqlLog,
                   written, snowflake_conn, csv, pg, sf, sinks0, calls>>

\* the same call, timing out or failing to connect: the exception goes up to the caller
requests_get_fails ==
    /\ pc = "requests_get"
    /\ httpLog' = Append(httpLog, url)
    /\ Finish(Raise("RequestException"))
    /\ UNCHANGED <<op, arg, api, url, printed, response, df, pending, conn, sqlLog,
                   written, snowflake_conn, csv, pg, sf, sinks0, calls>>

\* the status test written as response.ok: every status below 400 passes
status_code_ok ==
    /\ pc = "status_code"
    /\ IF response.status < 400
       THEN /\ df' = UpperColumns(json_normalize(response.json))
            /\ IF op \in EntryPoints
               THEN pc' = "dispatch" /\ result' = result
               ELSE Finish(Return("DataFrame"))
       ELSE /\ df' = df
            /\ Finish([kind |-> "raise", exc |-> "Exception",
                       status |-> response.status])
    /\ UNCHANGED <<op, arg, api, url, printed, httpLog, response, pending, conn,
                   sqlLog, written, snowflake_conn, csv, pg, sf, sinks0, calls>>

\* if response.status_code == 200: ... return df   else: raise Exception(...)
\* in pull_and_dump_data and main the DataFrame goes to the statements after the call
status_code ==
    /\ pc = "status_code"
    /\ IF response.status = 200
       THEN /\ df' = UpperColumns(json_normalize(response.json))
            /\ IF op \in EntryPoints
               THEN pc' = "dispatch" /\ result' = result
               ELSE Finish(Return("DataFrame"))
       ELSE /\ df' = df
            /\ Finish([kind |-> "raise", exc |-> "Exception",
                       status |-> response.status])
    /\ UNCHANGED <<op, arg, api, url, printed, httpLog, response, pending, conn,
                   sqlLog, written, snowflake_conn, csv, pg, sf, sinks0, calls>>

\* ------------------------------------------------------------ dump_to_csv
Call_dump_to_csv ==
    \E d \in DataFrames, p \in Paths :
        /\ Enter("dump_to_csv", [output_file |-> p], NoResponse, d)
        /\ pc' = "to_csv"
        /\ UNCHANGED <<url, snowflake_conn>>

\* df.to_csv(output_file, index=False)
dump_to_csv ==
    /\ pc = "to_csv"
    /\ csv' = [csv EXCEPT ![arg.output_file] =
                  [exists |-> TRUE, lines |-> to_csv(df, FALSE)]]
    /\ written' = Append(written, "csv")
    /\ Finish(Return("NoneType"))
    /\ UNCHANGED <<op, arg, api, url, printed, httpLog, response, df, pending, conn,
                   sqlLog, snowflake_conn, pg, sf, sinks0, calls>>

\* the same call on a path that cannot be written
dump_to_csv_fails ==
    /\ pc = "to_csv"
    /\ Finish(Raise("OSError"))
    /\ UNCHANGED <<op, arg, api, url, printed, httpLog, response, df, pending, conn,
                   sqlLog, written, snowflake_conn, csv, pg, sf, sinks0, calls>>

\* ------------------------------------------------------- dump_to_postgres
Call_dump_to_postgres ==
    \E d \in DataFrames, t \in TableNames :
        /\ Enter("dump_to_postgres", [table_name |-> t], NoResponse, d)
        /\ pc' = "to_sql"
        /\ UNCHANGED <<url, snowflake_conn>>

\* engine = create_engine(url_object); df.to_sql(table_name, engine, if_exists='replace')
dump_to_postgres ==
    /\ pc = "to_sql"
    /\ pg' = [pg EXCEPT ![arg.table_name] = Stored(to_sql(pg[arg.table_name], df))]
    /\ written' = Append(written, "postgres")
    /\ Finish(Return("NoneType"))
    /\ UNCHANGED <<op, arg, api, url, printed, httpLog, response, df, pending, conn,
                   sqlLog, snowflake_conn, csv, sf, sinks0, calls>>

\* the database cannot be reached or rejects the table
dump_to_postgres_fails ==
    /\ pc = "to_sql"
    /\ Finish(Raise("SQLAlchemyError"))
    /\ UNCHANGED <<op, arg, api, url, printed, httpLog, response, df, pending, conn,
                   sqlLog, written, snowflake_conn, csv, pg, sf, sinks0, calls>>

\* ------------------------------------------------------ dump_to_snowflake
\* a caller hands over a connection object with login, password, host, extra_dejson
Call_dump_to_snowflake ==
    \E d \in DataFrames, t \in TableNames :
        /\ Enter("dump_to_snowflake", [table_name |-> t], NoResponse, d)
        /\ snowflake_conn' = "Connection"
        /\ pc' = "connect"
        /\ UNCHANGED url

\* snowflake_conn.login: an attribute of a connection object, not of a dict
HasAttributes(kind) == kind = "Connection"

\* conn = snowflake.connector.connect(user=snowflake_conn.login, ...)
connect ==
    /\ pc = "connect"
    /\ HasAttributes(snowflake_conn)
    /\ conn' = "open"
    /\ pc' = "USE WAREHOUSE"
    /\ UNCHANGED <<op, arg, api, url, printed, httpLog, response, df, pending, result,
                   sqlLog, written, snowflake_conn, csv, pg, sf, sinks0, calls>>

\* connect raises: there is no connection, and the try block is never entered
connect_fails ==
    /\ pc = "connect"
    /\ HasAttributes(snowflake_conn)
    /\ Finish(Raise("DatabaseError"))
    /\ UNCHANGED <<op, arg, api, url, printed, httpLog, response, df, pending, conn,
                   sqlLog, written, snowflake_conn, csv, pg, sf, sinks0, calls>>

UseStatements == <<"USE WAREHOUSE", "USE DATABASE", "USE SCHEMA">>

\* what follows a statement of the try block
AfterStatement(stmt) ==
    IF stmt = "USE WAREHOUSE" THEN "USE DATABASE"
    ELSE IF stmt = "USE DATABASE" THEN "USE SCHEMA"
    ELSE "write_pandas"

\* cursor.execute(f"USE WAREHOUSE ..."), then USE DATABASE, then USE SCHEMA
cursor_execute ==
    /\ \E i \in 1..Len(UseStatements) : pc = UseStatements[i]
    /\ sqlLog' = Append(sqlLog, pc)
    /\ pc' = AfterStatement(pc)
    /\ UNCHANGED <<op, arg, api, url, printed, httpLog, response, df, pending, result,
                   conn, written, snowflake_conn, csv, pg, sf, sinks0, calls>>

\* a context statement raises: control leaves the try block for the finally clause
cursor_execute_fails ==
    /\ \E i \in 1..Len(UseStatements) : pc = UseStatements[i]
    /\ pending' = "ProgrammingError"
    /\ pc' = "finally"
    /\ UNCHANGED <<op, arg, api, url, printed, httpLog, response, df, result, conn,
                   sqlLog, written, snowflake_conn, csv, pg, sf, sinks0, calls>>

\* write_pandas(conn, df, table_name) into a table that exists with df's columns
dump_to_snowflake_write ==
    /\ pc = "write_pandas"
    /\ sf[arg.table_name].exists
    /\ sf[arg.table_name].columns = df.columns
    /\ sf' = [sf EXCEPT ![arg.table_name] = Stored(write_pandas(sf[arg.table_name], df))]
    /\ sqlLog' = Append(sqlLog, "write_pandas")
    /\ written' = Append(written, "snowflake")
    /\ pc' = "commit"
    /\ UNCHANGED <<op, arg, api, url, printed, httpLog, response, df, pending, result,
                   conn, snowflake_conn, csv, pg, sinks0, calls>>

\* write_pandas raises (no such table, other columns, a lost session): nothing is loaded
dump_to_snowflake_write_fails ==
    /\ pc = "write_pandas"
    /\ pending' = "ProgrammingError"
    /\ pc' = "finally"
    /\ UNCHANGED <<op, arg, api, url, printed, httpLog, response, df, result, conn,
                   sqlLog, written, snowflake_conn, csv, pg, sf, sinks0, calls>>

\* conn.commit()
commit ==
    /\ pc = "commit"
    /\ sqlLog' = Append(sqlLog, "commit")
    /\ pc' = "finally"
    /\ UNCHANGED <<op, arg, api, url, printed, httpLog, response, df, pending, result,
                   conn, written, snowflake_conn, csv, pg, sf, sinks0, calls>>

commit_fails ==
    /\ pc = "commit"
    /\ pending' = "DatabaseError"
    /\ pc' = "finally"
    /\ UNCHANGED <<op, arg, api, url, printed, httpLog, response, df, result, conn,
                   sqlLog, written, snowflake_conn, csv, pg, sf, sinks0, calls>>

\* finally: conn.close(); then the pending exception, if any, goes on to the caller
finally ==
    /\ pc = "finally"
    /\ conn' = "closed"
    /\ sqlLog' = Append(sqlLog, "close")
    /\ Finish(IF pending = "none" THEN Return("NoneType") ELSE Raise(pending))
    /\ UNCHANGED <<op, arg, api, url, printed, httpLog, response, df, pending, written,
                   snowflake_conn, csv, pg, sf, sinks0, calls>>

\* ------------------------------------------- pull_and_dump_data and main
Call_pull_and_dump_data ==
    \E a \in Args, r \in EntryResponses :
        /\ Enter("pull_and_dump_data", a, r, NoDf)
        /\ pc' = "build_url"
        /\ UNCHANGED <<url, snowflake_conn>>

Call_main ==
    \E a \in Args, r \in EntryResponses :
        /\ Enter("main", a, r, NoDf)
        /\ pc' = "build_url"
        /\ UNCHANGED <<url, snowflake_conn>>

\* url = f'https://api.collegefootballdata.com/{Category}', the loop over Search,
\* and print(f'Query URL: {url}'); an exception of the loop ends the invocation
query_url ==
    /\ pc = "build_url"
    /\ LET b == BuildUrl(arg.Category, arg.Search, arg.Value)
       IN  IF b.ok
           THEN /\ url' = b.url /\ printed' = b.url
                /\ pc' = "call_fetch" /\ result' = result
           ELSE /\ Finish(Raise(b.exc))
                /\ UNCHANGED <<url, printed>>
    /\ UNCHANGED <<op, arg, api, httpLog, response, df, pending, conn, sqlLog, written,
                   snowflake_conn, csv, pg, sf, sinks0, calls>>

\* df = pull_data_from_api(url, api_key): the call leaves the required parameter
\* params unbound, so Python raises TypeError before the body of the function
\* runs, and the invocation ends here
call_fetch ==
    /\ pc = "call_fetch"
    /\ IF MissingParams(pull_data_from_api_params, FetchCallArgs) = {}
       THEN pc' = "requests_get" /\ result' = result
       ELSE Finish(Raise("TypeError"))
    /\ UNCHANGED <<op, arg, api, url, printed, httpLog, response, df, pending, conn,
                   sqlLog, written, snowflake_conn, csv, pg, sf, sinks0, calls>>

\* ------------------------------------- the statements after the fetch call
\* Lines 207-224 and 262-287, statement by statement.  They start at
\* pc = "dispatch", where a DataFrame returned by the fetch call would arrive; as
\* call_fetch always raises, no behaviour gets there (AfterFetchUnreached) and
\* they are not among the steps of Next.

\* if arg.get("Export"): snowflake_conn = {...}; dump_to_snowflake(df, snowflake_conn,
\* table_name): the connection details are handed over as a dict
pull_and_dump_data_export ==
    /\ pc = "dispatch" /\ op = "pull_and_dump_data"
    /\ arg.Export
    /\ snowflake_conn' = "dict"
    /\ pc' = "connect"
    /\ UNCHANGED <<op, arg, api, url, printed, httpLog, response, df, pending, result,
                   conn, sqlLog, written, csv, pg, sf, sinks0, calls>>

\* snowflake_conn.login on the dict that pull_and_dump_data hands over raises
\* AttributeError while the arguments of connect are evaluated
connect_attribute_error ==
    /\ pc = "connect"
    /\ ~HasAttributes(snowflake_conn)
    /\ Finish(Raise("AttributeError"))
    /\ UNCHANGED <<op, arg, api, url, printed, httpLog, response, df, pending, conn,
                   sqlLog, written, snowflake_conn, csv, pg, sf, sinks0, calls>>

\* df.to_csv(f'{arg["File"]}.csv'); return 'Success'   (to_csv writes the index by default)
pull_and_dump_data_to_csv ==
    /\ pc = "dispatch" /\ op = "pull_and_dump_data"
    /\ ~arg.Export
    /\ csv' = [csv EXCEPT ![CsvPath(arg.File)] =
                  [exists |-> TRUE, lines |-> to_csv(df, TRUE)]]
    /\ written' = Append(written, "csv")
    /\ Finish(Return("str"))
    /\ UNCHANGED <<op, arg, api, url, printed, httpLog, response, df, pending, conn,
                   sqlLog, snowflake_conn, pg, sf, sinks0, calls>>

pull_and_dump_data_to_csv_fails ==
    /\ pc = "dispatch" /\ op = "pull_and_dump_data"
    /\ ~arg.Export
    /\ Finish(Raise("OSError"))
    /\ UNCHANGED <<op, arg, api, url, printed, httpLog, response, df, pending, conn,
                   sqlLog, written, snowflake_conn, csv, pg, sf, sinks0, calls>>

\* if arg.Export: conn = snowflake.connector.connect(user=..., role=role)
main_connect ==
    /\ pc = "dispatch" /\ op = "main"
    /\ arg.Export
    /\ conn' = "open"
    /\ pc' = "main_write_pandas"
    /\ UNCHANGED <<op, arg, api, url, printed, httpLog, response, df, pending, result,
                   sqlLog, written, snowflake_conn, csv, pg, sf, sinks0, calls>>

main_connect_fails ==
    /\ pc = "dispatch" /\ op = "main"
    /\ arg.Export
    /\ Finish(Raise("DatabaseError"))
    /\ UNCHANGED <<op, arg, api, url, printed, httpLog, response, df, pending, conn,
                   sqlLog, written, snowflake_conn, csv, pg, sf, sinks0, calls>>

\* success, _, _, _ = write_pandas(conn, df, arg.Table, auto_create_table=True)
main_write_pandas ==
    /\ pc = "main_write_pandas"
    /\ sf[arg.Table].exists => sf[arg.Table].columns = df.columns
    /\ sf' = [sf EXCEPT ![arg.Table] = Stored(write_pandas_auto_create(sf[arg.Table], df))]
    /\ sqlLog' = Append(sqlLog, "write_pandas")
    /\ written' = Append(written, "snowflake")
    /\ pc' = "main_close"
    /\ UNCHANGED <<op, arg, api, url, printed, httpLog, response, df, pending, result,
                   conn, snowflake_conn, csv, pg, sinks0, calls>>

\* write_pandas raises: the exception leaves main, and conn.close() is not reached
main_write_pandas_fails ==
    /\ pc = "main_write_pandas"
    /\ Finish(Raise("ProgrammingError"))
    /\ UNCHANGED <<op, arg, api, url, printed, httpLog, response, df, pending, conn,
                   sqlLog, written, snowflake_conn, csv, pg, sf, sinks0, calls>>

\* conn.close(); return success
main_close ==
    /\ pc = "main_close"
    /\ conn' = "closed"
    /\ sqlLog' = Append(sqlLog, "close")
    /\ Finish(Return("bool"))
    /\ UNCHANGED <<op, arg, api, url, printed, httpLog, response, df, pending, written,
                   snowflake_conn, csv, pg, sf, sinks0, calls>>

\* df.to_csv(f'{arg.File}.csv'); return 'Success'   (to_csv writes the index by default)
main_to_csv ==
    /\ pc = "dispatch" /\ op = "main"
    /\ ~arg.Export
    /\ csv' = [csv EXCEPT ![CsvPath(arg.File)] =
                  [exists |-> TRUE, lines |-> to_csv(df, TRUE)]]
    /\ written' = Append(written, "csv")
    /\ Finish(Return("str"))
    /\ UNCHANGED <<op, arg, api, url, printed, httpLog, response, df, pending, conn,
                   sqlLog, snowflake_conn, pg, sf, sinks0, calls>>

main_to_csv_fails ==
    /\ pc = "dispatch" /\ op = "main"
    /\ ~arg.Export
    /\ Finish(Raise("OSError"))
    /\ UNCHANGED <<op, arg, api, url, printed, httpLog, response, df, pending, conn,
                   sqlLog, written, snowflake_conn, csv, pg, sf, sinks0, calls>>

\* the statements after the fetch call, together
AfterFetch ==
    \/ pull_and_dump_data_export \/ connect_attribute_error
    \/ pull_and_dump_data_to_csv \/ pull_and_dump_data_to_csv_fails
    \/ main_connect \/ main_connect_fails
    \/ main_write_pandas \/ main_write_pandas_fails \/ main_close
    \/ main_to_csv \/ main_to_csv_fails

\* no invocation of pull_and_dump_data or main gets past its fetch call
AfterFetchUnreached ==
    /\ ~ENABLED AfterFetch
    /\ op \in EntryPoints => httpLog = <<>> /\ response = NoResponse /\ written = <<>>

\* ------------------------------------------------------------ the caller
\* the invocation has returned or raised; its frame is gone and the caller may
\* call again
Returned ==
    /\ pc = "done"
    /\ pc' = "idle"
    /\ op' = "none" /\ arg' = NoArg /\ api' = NoResponse /\ url' = NoUrl
    /\ printed' = NoUrl /\ httpLog' = <<>> /\ response' = NoResponse /\ df' = NoDf
    /\ pending' = "none" /\ result' = Running /\ conn' = "none" /\ sqlLog' = <<>>
    /\ written' = <<>> /\ snowflake_conn' = "none"
    /\ sinks0' = <<csv, pg, sf>>
    /\ UNCHANGED <<sinks, calls>>

Next ==
    \/ Call_pull_data_from_api \/ requests_get \/ requests_get_fails \/ status_code
    \/ Call_dump_to_csv \/ dump_to_csv \/ dump_to_csv_fails
    \/ Call_dump_to_postgres \/ dump_to_postgres \/ dump_to_postgres_fails
    \/ Call_dump_to_snowflake \/ connect \/ connect_fails
    \/ cursor_execute \/ cursor_execute_fails
    \/ dump_to_snowflake_write \/ dump_to_snowflake_write_fails
    \/ commit \/ commit_fails \/ finally
    \/ Call_pull_and_dump_data \/ Call_main \/ query_url \/ call_fetch
    \/ Returned

Spec == Init /\ [][Next]_vars

\* ================================================================ claims
\* len() of a filter argument, an absent one counting as empty
FilterCount(x) == IF x[1] = "list" THEN Len(x[2]) ELSE 0

EqualLength(a) == FilterCount(a.Search) = FilterCount(a.Value)

RECURSIVE QueryString(_, _, _)
\* the query string of the first i filters: ?k1=v1&k2=v2...
QueryString(keys, vals, i) ==
    IF i = 0 THEN <<>>
    ELSE QueryString(keys, vals, i - 1)
         \o <<IF i = 1 THEN "?" ELSE "&">> \o keys[i] \o <<"=">> \o Format(vals[i])

\* C1: with filter lists of equal length (both possibly empty or absent) the
\* URL that pull_and_dump_data and main build and print is the base URL, the
\* category and, in input order, ?key=value for the first filter and
\* &key=value for each later one: one '?' and len-1 '&' for a non-empty list,
\* no query string and no trailing '?' for an empty one.
C1_UrlShape ==
    (op \in EntryPoints /\ EqualLength(arg) /\ pc # "build_url") =>
        LET k == FilterCount(arg.Search)
        IN  /\ printed # NoUrl
            /\ printed = BaseUrl \o arg.Category
                         \o (IF k = 0 THEN <<>>
                             ELSE QueryString(arg.Search[2], arg.Value[2], k))
            /\ Count("?", printed) = (IF k = 0 THEN 0 ELSE 1)
            /\ Count("&", printed) = (IF k = 0 THEN 0 ELSE k - 1)
            /\ printed[Len(printed)] # "?"

C1_Witness ==
    /\ op = "main" /\ pc = "call_fetch" /\ EqualLength(arg)
    /\ FilterCount(arg.Search) = 2
    /\ Count("&", printed) = 1

\* C2: an invocation whose filter keys and filter values differ in length fails
\* with a ValidationError before a URL is printed, a request is issued or a
\* sink is written.
C2_ValidationFailsFast ==
    (op \in EntryPoints /\ ~EqualLength(arg)) =>
        /\ printed = NoUrl
        /\ httpLog = <<>>
        /\ <<csv, pg, sf>> = sinks0
        /\ pc = "done" => result = Raise("ValidationError")

\* C3: a response whose status is not 200 makes pull_data_from_api raise an
\* exception that carries the status code; no DataFrame is returned and no
\* sink has been written when the invocation ends.
C3_Non200Raises ==
    (pc = "done" /\ response # NoResponse /\ response.status # 200) =>
        /\ result.kind = "raise"
        /\ result.exc = "Exception"
        /\ result.status = response.status
        /\ df = NoDf
        /\ <<csv, pg, sf>> = sinks0

C3_Witness ==
    /\ pc = "done" /\ op = "pull_data_from_api"
    /\ response.status = 404
    /\ result.kind = "raise" /\ result.exc = "Exception" /\ result.status = 404

\* C4: an invocation of pull_and_dump_data or main with well-formed arguments
\* has issued exactly one GET request, to the URL it printed, when it ends.
C4_ExactlyOneGet ==
    (op \in EntryPoints /\ EqualLength(arg) /\ pc = "done") =>
        /\ Len(httpLog) = 1
        /\ httpLog[1] = printed

\* C5: an invocation of pull_and_dump_data or main whose fetch has succeeded
\* writes at most one sink, the one Export selects: with Export set no CSV file
\* is written, without it no warehouse connection is opened and no table is
\* written; an invocation that returns a success status has written exactly
\* one sink.
C5_ExactlyOneSink ==
    (op \in EntryPoints /\ pc \notin {"build_url", "call_fetch", "requests_get",
                                      "status_code"}
       /\ response.status = 200) =>
        /\ Len(written) <= 1
        /\ IF arg.Export
           THEN csv = sinks0[1] /\ (\A i \in 1..Len(written) : written[i] = "snowflake")
           ELSE /\ sf = sinks0[3] /\ conn = "none" /\ sqlLog = <<>>
                /\ \A i \in 1..Len(written) : written[i] = "csv"
        /\ pg = sinks0[2]
        /\ (pc = "done" /\ result.kind = "return") => Len(written) = 1

\* C6: after a successful database or warehouse write the destination table
\* holds exactly the rows of the DataFrame, whatever it held before.
C6_ReplaceSemantics ==
    (pc = "done" /\ result.kind = "return") =>
        /\ op = "dump_to_postgres" =>
              Len(pg[arg.table_name].rows) = Len(df.rows)
        /\ op = "dump_to_snowflake" =>
              sf[arg.table_name].rows = df.rows
        /\ (op = "main" /\ arg.Export) =>
              sf[arg.Table].rows = df.rows

\* C7: when an invocation ends, on whichever path, a Snowflake connection it
\* opened has been closed.
C7_ConnectionClosed ==
    pc \in {"done", "idle"} => conn # "open"

\* C8: a CSV file the program has written holds one header line with exactly
\* the DataFrame's uppercase column names and one line per row, each with as
\* many fields as there are columns: no index column.
C8_CsvNoIndex ==
    /\ \A p \in Paths : csv[p].exists =>
          /\ Len(csv[p].lines) >= 1
          /\ \A i \in 1..Len(csv[p].lines) :
                Len(csv[p].lines[i]) = Len(csv[p].lines[1])
          /\ \A j \in 1..Len(csv[p].lines[1]) :
                /\ csv[p].lines[1][j] # <<>>
                /\ \A c \in 1..Len(csv[p].lines[1][j]) :
                      \A l \in 1..Len(Lower) : csv[p].lines[1][j][c] # Lower[l]
    /\ (pc = "done" /\ result.kind = "return" /\ written = <<"csv">>) =>
          LET lines == csv[IF op = "dump_to_csv" THEN arg.output_file
                           ELSE CsvPath(arg.File)].lines
          IN  /\ lines[1] = df.columns
              /\ Len(lines) = 1 + Len(df.rows)
              /\ \A i \in 1..Len(df.rows) :
                    /\ Len(lines[i + 1]) = Len(df.columns)
                    /\ \A j \in 1..Len(df.columns) :
                          lines[i + 1][j] = Format(df.rows[i][j])

\* C9: on a Snowflake write path USE WAREHOUSE, USE DATABASE and USE SCHEMA
\* have all run, in that order, before the bulk write starts; the bulk write
\* is followed by a commit, and the commit by the close of the connection.
C9_ContextBeforeWrite ==
    /\ pc \in {"write_pandas", "main_write_pandas"} => sqlLog = UseStatements
    /\ \A i \in 1..Len(sqlLog) :
          /\ sqlLog[i] = "write_pandas" =>
                i = 4 /\ SubSeq(sqlLog, 1, 3) = UseStatements
          /\ sqlLog[i] = "commit" => i = 5 /\ sqlLog[4] = "write_pandas"
          /\ sqlLog[i] = "close" => i = Len(sqlLog)
    /\ (pc = "done" /\ result.kind = "return" /\ written = <<"snowflake">>) =>
          sqlLog = UseStatements \o <<"write_pandas", "commit", "close">>

RECURSIVE KeyPaths(_)
\* the flattened keys of a JSON object with their values, as a set
KeyPaths(pairs) ==
    UNION { IF pairs[i][2][1] = "obj"
            THEN {<<pairs[i][1] \o <<".">> \o q[1], q[2]>> : q \in KeyPaths(pairs[i][2][2])}
            ELSE {<<pairs[i][1], pairs[i][2]>>} : i \in 1..Len(pairs) }

\* the value a JSON object has under a flattened key, NaN when it has none
ValueAt(pairs, key) ==
    IF \E q \in KeyPaths(pairs) : q[1] = key
    THEN (CHOOSE q \in KeyPaths(pairs) : q[1] = key)[2]
    ELSE NaN

\* C10: the DataFrame made of a 200 response has one row per element of the
\* JSON array and one column per flattened key; the column is named by the
\* uppercase form of the key and holds the elements' values under that key.
C10_ColumnsUppercased ==
    (pc = "done" /\ op = "pull_data_from_api" /\ result.kind = "return") =>
        LET body == response.json
            keys == UNION {{q[1] : q \in KeyPaths(body[i])} : i \in 1..Len(body)}
        IN  /\ Len(df.rows) = Len(body)
            /\ Len(df.columns) = Cardinality(keys)
            /\ \A i \in 1..Len(body) : Len(df.rows[i]) = Len(df.columns)
            /\ \A j \in 1..Len(df.columns) :
                  \A c \in 1..Len(df.columns[j]) :
                      \A l \in 1..Len(Lower) : df.columns[j][c] # Lower[l]
            /\ \A key \in keys :
                  \E j \in 1..Len(df.columns) :
                      /\ df.columns[j] = str_upper(key)
                      /\ \A i \in 1..Len(body) :
                            df.rows[i][j] = ValueAt(body[i], key)

C10_Witness ==
    /\ pc = "done" /\ op = "pull_data_from_api" /\ result.kind = "return"
    /\ Len(df.rows) = 2
    /\ \E j \in 1..Len(df.columns) :
          df.columns[j] = <<"V","E","N","U","E",".","C","I","T","Y">>

====
